---- MODULE Spec2Model ----
(***************************************************************************)
(* nyan container iteration layer (src/nyan/nyan_container.h):             *)
(*   ContainerIterBase<T>  - the polymorphic cursor (pure virtual ++, *,   *)
(*                           equals; concrete operator ==)                 *)
(*   ContainerIterator<T>  - the handle owning one cursor by unique_ptr    *)
(*   NyanContainer         - the abstract container (all pure virtual,     *)
(*                           except cbegin / cend)                         *)
(* The concrete containers and their cursors are not part of the header;   *)
(* they are modelled from the specification as index cursors over a        *)
(* duplicate-free sequence.                                                *)
(***************************************************************************)
EXTENDS Integers, Sequences, FiniteSets, TLC

\* entities offered to add / remove / contains when only containers act
NumEntities == 2
\* entities offered to them while handles are in use
NumIterEntities == 1
NumHandles == 2

\* two containers: the first an ordered set, the second of either kind, so
\* that they are a pair of the same kind or of different kinds
Containers == {1, 2}
Entities == 1..NumEntities
IterEntities == 1..NumIterEntities
Handles == 1..NumHandles
Kinds == {"orderedset", "set"}

\* the value of an empty std::unique_ptr<real_iterator>
NULL == [kind |-> "none", cont |-> 0, pos |-> 0]

VARIABLES
    kind,       \* kind[c]: the concrete type of container c (its typeid)
    contents,   \* contents[c]: the entities of c in iteration order
    live,       \* live[h]: handle object h has been constructed
    iter,       \* iter[h]: ContainerIterator::iter, the cursor owned or NULL
    last,       \* the last operation and what it returned
    pc          \* "run", "ub" (undefined behaviour hit), "ill_formed"

vars == <<kind, contents, live, iter, last, pc>>

\* ret: the boolean returned; called: whether equals was invoked;
\* val: the entity returned
Op(op, ret, called, val) ==
    [op |-> op, ret |-> ret, called |-> called, val |-> val]

Running == pc = "run"

----------------------------------------------------------------------------
(* NyanContainer: the contract of the pure virtual members *)

size(c) == Len(contents[c])

contains(c, e) == \E i \in 1..Len(contents[c]) : contents[c][i] = e

\* where a newly added entity is stored: an ordered set keeps insertion
\* order, a set keeps its own stable order
Stored(c, e) ==
    IF kind[c] = "orderedset"
    THEN Append(contents[c], e)
    ELSE SelectSeq(contents[c], LAMBDA x : x < e) \o <<e>>
         \o SelectSeq(contents[c], LAMBDA x : x > e)

\* add that reports an insertion without storing the entity
add_DropsEntity(c, e) == [ret |-> ~contains(c, e), seq |-> contents[c]]

add(c, e) ==
    IF contains(c, e)
    THEN [ret |-> FALSE, seq |-> contents[c]]
    ELSE [ret |-> TRUE, seq |-> Stored(c, e)]

\* remove that reports a removal without removing
remove_ReportsOnly(c, e) == [ret |-> contains(c, e), seq |-> contents[c]]

remove(c, e) ==
    IF contains(c, e)
    THEN [ret |-> TRUE, seq |-> SelectSeq(contents[c], LAMBDA x : x # e)]
    ELSE [ret |-> FALSE, seq |-> contents[c]]

\* the cursor objects begin() and end() allocate
begin(c) == [kind |-> kind[c], cont |-> c, pos |-> 0]

end(c) == [kind |-> kind[c], cont |-> c, pos |-> size(c)]

beginConst(c) == [kind |-> kind[c], cont |-> c, pos |-> 0]

endConst(c) == [kind |-> kind[c], cont |-> c, pos |-> size(c)]

\* const_iterator cbegin() const { return this->begin(); }
cbegin(c) == beginConst(c)

\* const_iterator cend() const { return this->end(); }
cend(c) == endConst(c)

----------------------------------------------------------------------------
(* ContainerIterBase: the pure virtual members of a concrete cursor *)

\* operator ++ : undefined on an end cursor
CursorAdvance(x) ==
    IF x.pos < size(x.cont)
    THEN [ub |-> FALSE, cur |-> [x EXCEPT !.pos = @ + 1]]
    ELSE [ub |-> TRUE, cur |-> x]

\* operator * : undefined on an end cursor
CursorDeref(x) ==
    IF x.pos < size(x.cont)
    THEN [ub |-> FALSE, val |-> contents[x.cont][x.pos + 1]]
    ELSE [ub |-> TRUE, val |-> 0]

\* equals : same position in the same container
equals(x, y) == x.cont = y.cont /\ x.pos = y.pos

(* ContainerIterBase::operator == *)

\* operator == without the typeid test
IterBaseEq_NoTypeidGuard(x, y) == [res |-> equals(x, y), called |-> TRUE]

\* operator == without the call of equals
IterBaseEq_OnlyTypeid(x, y) == [res |-> x.kind = y.kind, called |-> FALSE]

\* return (typeid(*this) == typeid(other)) and this->equals(other);
\* called: whether equals was invoked
IterBaseEq(x, y) ==
    IF x.kind = y.kind
    THEN [res |-> equals(x, y), called |-> TRUE]
    ELSE [res |-> FALSE, called |-> FALSE]

----------------------------------------------------------------------------
(* ContainerIterator: a, b name handles, it maps each handle to its iter *)

\* this->iter == other.iter : a unique_ptr is the sole owner of its object,
\* so two handles hold the same pointer only when both hold none
SamePointer(a, b, it) == a = b \/ (it[a] = NULL /\ it[b] = NULL)

\* operator == that compares the pointers only
IterEq_OnlyIdentity(a, b, it) ==
    [ub |-> FALSE, res |-> SamePointer(a, b, it), called |-> FALSE]

\* return (this->iter == other.iter) or (*this->iter == *other.iter);
\* the right operand dereferences both pointers: undefined when exactly one
\* of them is null
IterEq(a, b, it) ==
    IF SamePointer(a, b, it)
    THEN [ub |-> FALSE, res |-> TRUE, called |-> FALSE]
    ELSE IF it[a] = NULL \/ it[b] = NULL
    THEN [ub |-> TRUE, res |-> FALSE, called |-> FALSE]
    ELSE LET r == IterBaseEq(it[a], it[b])
         IN  [ub |-> FALSE, res |-> r.res, called |-> r.called]

\* return not (*this == other);
IterNeq(a, b, it) == [IterEq(a, b, it) EXCEPT !.res = ~@]

\* operator ++ that does not reach the cursor
IterAdvance_Stays(a, it) == [ub |-> it[a] = NULL, iter |-> it]

\* operator ++ with the position shared by all cursors over the container
IterAdvance_AllOnContainer(a, it) ==
    [ub |-> it[a] = NULL \/ CursorAdvance(it[a]).ub,
     iter |-> [g \in DOMAIN it |->
                 IF it[g] # NULL /\ it[a] # NULL /\ it[g].cont = it[a].cont
                 THEN [it[g] EXCEPT !.pos = @ + 1] ELSE it[g]]]

\* ++(*this->iter); return *this;
IterAdvance(a, it) ==
    IF it[a] = NULL
    THEN [ub |-> TRUE, iter |-> it]
    ELSE LET r == CursorAdvance(it[a])
         IN  [ub |-> r.ub, iter |-> [it EXCEPT ![a] = r.cur]]

\* return *(*this->iter);
IterDeref(a, it) ==
    IF it[a] = NULL THEN [ub |-> TRUE, val |-> 0] ELSE CursorDeref(it[a])

----------------------------------------------------------------------------
(* the operations *)

Init ==
    /\ kind \in {k \in [Containers -> Kinds] : k[1] = "orderedset"}
    /\ contents = [c \in Containers |-> <<>>]
    /\ live = [h \in Handles |-> FALSE]
    /\ iter = [h \in Handles |-> NULL]
    /\ last = Op("init", FALSE, FALSE, 0)
    /\ pc = "run"

Add(c, e) ==
    /\ Running
    /\ contents' = [contents EXCEPT ![c] = add(c, e).seq]
    /\ last' = Op("add", add(c, e).ret, FALSE, 0)
    /\ UNCHANGED <<kind, live, iter, pc>>

Remove(c, e) ==
    /\ Running
    /\ contents' = [contents EXCEPT ![c] = remove(c, e).seq]
    /\ last' = Op("remove", remove(c, e).ret, FALSE, 0)
    /\ UNCHANGED <<kind, live, iter, pc>>

Contains(c, e) ==
    /\ Running
    /\ last' = Op("contains", contains(c, e), FALSE, 0)
    /\ UNCHANGED <<kind, contents, live, iter, pc>>

\* ContainerIterator() = default;
DefaultConstruct(h) ==
    /\ Running
    /\ ~live[h]
    /\ live' = [live EXCEPT ![h] = TRUE]
    /\ iter' = [iter EXCEPT ![h] = NULL]
    /\ last' = Op("default_construct", FALSE, FALSE, 0)
    /\ UNCHANGED <<kind, contents, pc>>

\* ContainerIterator(std::unique_ptr<real_iterator> &&real): iter{std::move(real)}
ConstructFromReal(h, real, what) ==
    /\ Running
    /\ ~live[h]
    /\ live' = [live EXCEPT ![h] = TRUE]
    /\ iter' = [iter EXCEPT ![h] = real]
    /\ last' = Op(what, FALSE, FALSE, 0)
    /\ UNCHANGED <<kind, contents, pc>>

\* iterator h = c.begin();
Begin(h, c) == ConstructFromReal(h, begin(c), "begin")

\* iterator h = c.end();
End(h, c) == ConstructFromReal(h, end(c), "end")

\* ContainerIterator(ContainerIterator &&other): iter{std::move(other.iter)}
MoveConstruct(dst, src) ==
    /\ Running
    /\ ~live[dst]
    /\ live[src]
    /\ live' = [live EXCEPT ![dst] = TRUE]
    /\ iter' = [iter EXCEPT ![dst] = iter[src], ![src] = NULL]
    /\ last' = Op("move_construct", FALSE, FALSE, 0)
    /\ UNCHANGED <<kind, contents, pc>>

\* a member whose body has no valid instantiation: the translation unit that
\* uses it is rejected, no handle is produced or changed
IllFormed(what) ==
    /\ pc' = "ill_formed"
    /\ last' = Op(what, FALSE, FALSE, 0)
    /\ UNCHANGED <<kind, contents, live, iter>>

\* ContainerIterator(const ContainerIterator &other): iter{std::make_unique(other)}
\* std::make_unique<T> cannot deduce T, and ContainerIterBase has no clone
CopyConstruct(dst, src) ==
    /\ Running
    /\ ~live[dst]
    /\ live[src]
    /\ IllFormed("copy_construct")

\* operator =(const ContainerIterator &other) { this->iter = std::make_unique(other); }
CopyAssign(dst, src) ==
    /\ Running
    /\ live[dst]
    /\ live[src]
    /\ IllFormed("copy_assign")

\* operator =(ContainerIterator &&other) { this->iter = std::move(other); }
\* no unique_ptr<real_iterator> can be assigned from a ContainerIterator
MoveAssign(dst, src) ==
    /\ Running
    /\ live[dst]
    /\ live[src]
    /\ IllFormed("move_assign")

\* virtual ~ContainerIterator() = default;  (the unique_ptr deletes the cursor)
Destroy(h) ==
    /\ Running
    /\ live[h]
    /\ live' = [live EXCEPT ![h] = FALSE]
    /\ iter' = [iter EXCEPT ![h] = NULL]
    /\ last' = Op("destroy", FALSE, FALSE, 0)
    /\ UNCHANGED <<kind, contents, pc>>

\* ++h
Advance(h) ==
    /\ Running
    /\ live[h]
    /\ LET r == IterAdvance(h, iter)
       IN  /\ pc' = IF r.ub THEN "ub" ELSE "run"
           /\ iter' = IF r.ub THEN iter ELSE r.iter
    /\ last' = Op("advance", FALSE, FALSE, 0)
    /\ UNCHANGED <<kind, contents, live>>

\* *h
Deref(h) ==
    /\ Running
    /\ live[h]
    /\ LET r == IterDeref(h, iter)
       IN  /\ pc' = IF r.ub THEN "ub" ELSE "run"
           /\ last' = Op("deref", FALSE, FALSE, r.val)
    /\ UNCHANGED <<kind, contents, live, iter>>

\* the outcome of a comparison r: undefined behaviour may crash or yield
\* either truth value
Outcome(what, r) ==
    IF r.ub
    THEN \/ /\ pc' = "ub"
            /\ last' = Op(what, FALSE, FALSE, 0)
         \/ \E v \in BOOLEAN :
                /\ pc' = "run"
                /\ last' = Op(what, v, FALSE, 0)
    ELSE /\ pc' = "run"
         /\ last' = Op(what, r.res, r.called, 0)

\* a == b
Compare(a, b) ==
    /\ Running
    /\ live[a]
    /\ live[b]
    /\ Outcome("eq", IterEq(a, b, iter))
    /\ UNCHANGED <<kind, contents, live, iter>>

\* a != b
CompareNeq(a, b) ==
    /\ Running
    /\ live[a]
    /\ live[b]
    /\ Outcome("neq", IterNeq(a, b, iter))
    /\ UNCHANGED <<kind, contents, live, iter>>

\* the container operations alone
ContainerNext ==
    \/ \E c \in Containers, e \in Entities : Add(c, e)
    \/ \E c \in Containers, e \in Entities : Remove(c, e)
    \/ \E c \in Containers, e \in Entities : Contains(c, e)

SpecContainer == Init /\ [][ContainerNext]_vars

\* containers together with the handles over them
Next ==
    \/ \E c \in Containers, e \in IterEntities : Add(c, e)
    \/ \E c \in Containers, e \in IterEntities : Remove(c, e)
    \/ \E c \in Containers, e \in IterEntities : Contains(c, e)
    \/ \E h \in Handles : DefaultConstruct(h)
    \/ \E h \in Handles, c \in Containers : Begin(h, c)
    \/ \E h \in Handles, c \in Containers : End(h, c)
    \/ \E dst, src \in Handles : MoveConstruct(dst, src)
    \/ \E dst, src \in Handles : CopyConstruct(dst, src)
    \/ \E dst, src \in Handles : CopyAssign(dst, src)
    \/ \E dst, src \in Handles : MoveAssign(dst, src)
    \/ \E h \in Handles : Destroy(h)
    \/ \E h \in Handles : Advance(h)
    \/ \E h \in Handles : Deref(h)
    \/ \E a, b \in Handles : Compare(a, b)
    \/ \E a, b \in Handles : CompareNeq(a, b)

Spec == Init /\ [][Next]_vars

----------------------------------------------------------------------------
(* a caller's loop over a container, through handles *)

RECURSIVE AdvanceTimes(_, _, _)
\* ++a, n times
AdvanceTimes(a, it, n) ==
    IF n = 0
    THEN [ub |-> FALSE, iter |-> it]
    ELSE LET r == IterAdvance(a, it)
         IN  IF r.ub THEN r ELSE AdvanceTimes(a, r.iter, n - 1)

RECURSIVE AdvanceEach(_, _, _)
\* handle i is advanced i - 1 times, for i from `from' to `to'
AdvanceEach(it, from, to) ==
    IF from > to
    THEN [ub |-> FALSE, iter |-> it]
    ELSE LET r == AdvanceTimes(from, it, from - 1)
         IN  IF r.ub THEN r ELSE AdvanceEach(r.iter, from + 1, to)

\* handles 1 .. size(c)+1 come from c.begin(), handle k+1 advanced k times;
\* handle size(c)+2 comes from c.end()
Walk(c) ==
    AdvanceEach([i \in 1..(size(c) + 2) |->
                    IF i = size(c) + 2 THEN end(c) ELSE begin(c)],
                1, size(c) + 1)

\* the handles of c.begin() and c.end(), for each pair of overloads
BeginEnd(c) == {<<begin(c), end(c)>>, <<beginConst(c), endConst(c)>>,
                <<cbegin(c), cend(c)>>}

Owns(h) == live[h] /\ iter[h] # NULL

AtEnd(x) == x.pos = size(x.cont)

----------------------------------------------------------------------------
(* the claims *)

\* C1: for two handles that each own a cursor, a == b is true exactly when
\* the cursors are of the same concrete kind and equals returns true; equals
\* is never invoked for cursors of different kinds.
C1_EqualIffSameKindAndPosition ==
    [][\A a, b \in Handles :
        (last'.op = "eq" /\ iter[a] # NULL /\ iter[b] # NULL /\ Compare(a, b)) =>
            /\ pc' = "run"
            /\ last'.ret = (iter[a].kind = iter[b].kind /\ equals(iter[a], iter[b]))
            /\ last'.called => iter[a].kind = iter[b].kind]_vars

\* two handles at the end of containers of different kinds were compared:
\* unequal, equals not invoked
C1_Witness ==
    /\ pc = "run"
    /\ last = Op("eq", FALSE, FALSE, 0)
    /\ \A h \in Handles : Owns(h) /\ AtEnd(iter[h])
    /\ \E a, b \in Handles : iter[a].kind # iter[b].kind

\* C2: comparing handles is always safe: a handle without a cursor equals a
\* handle without a cursor and is unequal to every handle that owns one, in
\* either operand order.
C2_CompareWithoutCursorIsSafe ==
    [][\A a, b \in Handles :
        (last'.op = "eq" /\ (iter[a] = NULL \/ iter[b] = NULL) /\ Compare(a, b)) =>
            /\ pc' = "run"
            /\ last'.ret = (iter[a] = NULL /\ iter[b] = NULL)]_vars

\* C3: a copy of a handle that owns a cursor owns its own cursor at the
\* position of the source; advancing one of the two leaves the other where it
\* was.
C3_CopyIsIndependent ==
    [][/\ \A dst, src \in Handles :
            ((CopyConstruct(dst, src) \/ CopyAssign(dst, src))
                /\ dst # src /\ iter[src] # NULL) =>
                /\ pc' = "run"
                /\ live'[dst]
                /\ iter'[dst] = iter[src]
                /\ iter'[src] = iter[src]
       /\ \A h \in Handles :
            Advance(h) => \A g \in Handles \ {h} : iter'[g] = iter[g]]_vars

\* C4: add returning true: the entity is contained afterwards and size grew
\* by one; add returning false: the entity was contained before and nothing
\* changed.
C4_AddResult ==
    [][\A c \in Containers, e \in Entities :
        Add(c, e) =>
            IF last'.ret
            THEN contains(c, e)' /\ size(c)' = size(c) + 1
            ELSE contains(c, e) /\ contents' = contents]_vars

\* a duplicate add was refused while a container holds two entities
C4_Witness ==
    /\ last = Op("add", FALSE, FALSE, 0)
    /\ \E c \in Containers : size(c) = 2

\* C5: remove returns true exactly when the entity was contained; then size
\* shrinks by one, the entity is gone and every other entity stays; otherwise
\* nothing changes and nothing fails.
C5_RemoveResult ==
    [][\A c \in Containers, e \in Entities :
        Remove(c, e) =>
            /\ last'.ret = contains(c, e)
            /\ pc' = "run"
            /\ IF last'.ret
               THEN /\ size(c)' = size(c) - 1
                    /\ ~contains(c, e)'
                    /\ \A f \in Entities \ {e} : contains(c, f) => contains(c, f)'
               ELSE contents' = contents]_vars

\* an entity was removed from a container that keeps another one
C5_Witness ==
    /\ last = Op("remove", TRUE, FALSE, 0)
    /\ \E c \in Containers : size(c) = 1
    /\ \E c \in Containers : size(c) = 0

\* C6: begin() == end() exactly when size() == 0, for each pair of overloads.
C6_BeginIsEndIffEmpty ==
    \A c \in Containers : \A p \in BeginEnd(c) :
        /\ ~IterEq(1, 2, p).ub
        /\ IterEq(1, 2, p).res = (size(c) = 0)

\* a container emptied by remove beside a non-empty one
C6_Witness ==
    /\ last = Op("remove", TRUE, FALSE, 0)
    /\ \E c \in Containers :
        size(c) = 0 /\ IterEq(1, 2, <<begin(c), end(c)>>).res
    /\ \E c \in Containers :
        size(c) = 2 /\ ~IterEq(1, 2, <<cbegin(c), cend(c)>>).res

\* C7: from begin(), end() is reached after exactly size() advances; the
\* handles before it are pairwise unequal and unequal to end(), and they
\* dereference to exactly the contained entities.
C7_WalkVisitsContents ==
    \A c \in Containers :
        LET n == size(c)
            w == Walk(c)
        IN  /\ ~w.ub
            /\ IterEq(n + 1, n + 2, w.iter).res
            /\ \A i \in 1..n :
                /\ ~IterEq(i, n + 2, w.iter).res
                /\ ~IterDeref(i, w.iter).ub
                /\ \A j \in 1..n : i # j => ~IterEq(i, j, w.iter).res
            /\ {IterDeref(i, w.iter).val : i \in 1..n}
                   = {e \in Entities : contains(c, e)}

\* a container of two entities, after a removal
C7_Witness ==
    /\ last.op = "remove"
    /\ \E c \in Containers :
        /\ size(c) = 2
        /\ ~Walk(c).ub
        /\ IterDeref(1, Walk(c).iter).val # IterDeref(2, Walk(c).iter).val

\* C8: handles obtained from two different containers are never equal.
C8_DifferentContainersUnequal ==
    [][\A a, b \in Handles :
        (last'.op = "eq" /\ iter[a] # NULL /\ iter[b] # NULL
            /\ iter[a].cont # iter[b].cont /\ Compare(a, b)) =>
                pc' = "run" /\ last'.ret = FALSE]_vars

\* the end() handles of two empty containers of the same kind were compared:
\* equals was invoked and the handles are unequal
C8_Witness ==
    /\ pc = "run"
    /\ last = Op("eq", FALSE, TRUE, 0)
    /\ \A c \in Containers : size(c) = 0 /\ kind[c] = kind[1]
    /\ \A h \in Handles : Owns(h) /\ AtEnd(iter[h])
    /\ \E a, b \in Handles : iter[a].cont # iter[b].cont

\* C9: ++ and * on a handle that owns a non-end cursor leave the container,
\* every other handle and the handle's binding as they were; ++ moves the
\* handle's own position by one, * moves nothing.
C9_AdvanceDerefFrame ==
    [][\A h \in Handles :
        (last'.op \in {"advance", "deref"}
            /\ iter[h] # NULL /\ iter[h].pos < size(iter[h].cont)) =>
            /\ Advance(h) =>
                /\ pc' = "run"
                /\ contents' = contents
                /\ iter'[h] = [iter[h] EXCEPT !.pos = @ + 1]
                /\ \A g \in Handles \ {h} : iter'[g] = iter[g]
            /\ Deref(h) =>
                /\ pc' = "run"
                /\ contents' = contents
                /\ iter' = iter
                /\ last'.val = contents[iter[h].cont][iter[h].pos + 1]]_vars

\* one handle was advanced while another over the same container stayed at
\* the first element
C9_Witness ==
    /\ pc = "run"
    /\ last.op = "advance"
    /\ \E h, g \in Handles :
        /\ Owns(h) /\ Owns(g)
        /\ iter[h].cont = iter[g].cont
        /\ iter[h].pos = 1
        /\ iter[g].pos = 0

\* C10: a move (construction or assignment) from a handle that owns a cursor
\* leaves the destination with that cursor and the source without one.
C10_MoveTransfersCursor ==
    [][\A dst, src \in Handles :
        ((MoveConstruct(dst, src) \/ MoveAssign(dst, src))
            /\ dst # src /\ iter[src] # NULL) =>
            /\ pc' = "run"
            /\ live'[dst]
            /\ iter'[dst] = iter[src]
            /\ iter'[src] = NULL]_vars

====
